---- MODULE Spec2Model ----
(***************************************************************************)
(* A model of the collaborative batch (PSBT relay) event handler of        *)
(* src/src/batch.rs, process_batch_events.                                 *)
(*                                                                         *)
(* A batch message travels from node to node.  Every node runs the same    *)
(* handler on the PSBTReceived event; the handler keeps no state of its    *)
(* own: all it reads is the event, the node's open channels and the        *)
(* wallet.  The wallet, the channel manager and the PSBT codec are not     *)
(* part of batch.rs; their results are inputs of the handler here.         *)
(***************************************************************************)
EXTENDS Integers, Sequences, FiniteSets, TLC

\* ------------------------------------------------------------- bounds
NumNodes == 3
MaxChannels == 2
MaxQuota == 3
MaxHops == 3
MaxCloses == 1
MaxAmount == 1
MaxFee == 1

\* ---------------------------------------------------- program constants
\* add_utxos_to_psbt(&mut psbt, 2, ...): the count handed to the wallet.
OutputCount == 2
\* `participants.len() as u8`: the count is truncated to 8 bits.
U8 == 256

Nodes == 1..NumNodes

\* ------------------------------------------------------ Vec<T> helpers
Contains(s, x) == \E i \in DOMAIN s : s[i] = x

Last(s) == s[Len(s)]

Front(s) == SubSeq(s, 1, Len(s) - 1)

Retain(s, x) == SelectSeq(s, LAMBDA k : k # x)

Count(s, x) == Cardinality({i \in DOMAIN s : s[i] = x})

Min(a, b) == IF a <= b THEN a ELSE b

\* iter().cloned().zip(...).collect(): pairs, as long as the shorter side.
Zip(a, b) == [i \in 1..Min(Len(a), Len(b)) |-> <<a[i], b[i]>>]

\* into_iter().unzip(): the two sides of a vector of pairs.
UnzipLeft(ps) == [i \in 1..Len(ps) |-> ps[i][1]]

UnzipRight(ps) == [i \in 1..Len(ps) |-> ps[i][2]]

\* Mutant of SliceShuffle: every position is drawn from the slice on its
\* own, so an element can come twice and another not at all.
SliceSample(v) ==
    {[i \in 1..Len(v) |-> v[p[i]]] : p \in [1..Len(v) -> 1..Len(v)]}

\* SliceRandom::shuffle with thread_rng(): any arrangement of the slice.
SliceShuffle(v) ==
    {[i \in 1..Len(v) |-> v[p[i]]] : p \in Permutations(1..Len(v))}

\* Option<T> as a sequence of at most one element.
None == <<>>

Some(x) == <<x>>

\* ------------------------------------------------------------ the PSBT
\* Psbt { unsigned_tx: { input: Vec<TxIn>, output: Vec<TxOut> },
\*        inputs: Vec<Input>, outputs: Vec<Output> }.
\* A TxIn is the id of the spent utxo; the Input beside it is the metadata
\* of that utxo (which utxo it describes, whether it carries a signature).
\* A TxOut is [owner, value]: whose wallet it pays and how much; the Output
\* beside it is the metadata of that TxOut (whose wallet it pays).
EmptyPsbt ==
    [unsigned_tx |-> [input |-> <<>>, output |-> <<>>],
     inputs |-> <<>>, outputs |-> <<>>]

\* The utxo a node's wallet owns.
UtxoOf(n) == n

TxOutOf(n, value) == [owner |-> n, value |-> value]

\* Wallet::add_utxos_to_psbt: appends the node's input and `count` outputs,
\* each with its metadata, at the same position of both sequences.
add_utxos_to_psbt(psbt, n, count, uniform_amount_opt) ==
    LET value == IF uniform_amount_opt = None THEN 0 ELSE uniform_amount_opt[1]
        outs == [k \in 1..count |-> TxOutOf(n, value)]
    IN [unsigned_tx |->
            [input |-> Append(psbt.unsigned_tx.input, UtxoOf(n)),
             output |-> psbt.unsigned_tx.output \o outs],
        inputs |-> Append(psbt.inputs, [utxo |-> UtxoOf(n), sig |-> FALSE]),
        outputs |-> psbt.outputs \o [k \in 1..count |-> [pays |-> n]]]

\* Wallet::payjoin_sign_psbt finds the inputs this wallet can sign.
HasSignableInput(psbt, n) ==
    \E i \in DOMAIN psbt.inputs : psbt.inputs[i].utxo = UtxoOf(n)

\* Wallet::payjoin_sign_psbt: signs the wallet's own inputs.
payjoin_sign_psbt(psbt, n) ==
    [psbt EXCEPT !.inputs =
        [i \in 1..Len(psbt.inputs) |->
            IF psbt.inputs[i].utxo = UtxoOf(n)
            THEN [psbt.inputs[i] EXCEPT !.sig = TRUE]
            ELSE psbt.inputs[i]]]

\* The transaction the originator starts the batch with: its own spend.
InitialPsbt(n, uniform_amount_opt) ==
    add_utxos_to_psbt(EmptyPsbt, n, 1, uniform_amount_opt)

\* ----------------------------------------------------------- the codec
\* psbt.serialize_hex(): the unsigned transaction (the number of inputs, the
\* inputs, the number of outputs, the outputs as owner and value), then one map
\* per input (utxo, signature flag) and one map per output.
Serialize(psbt) ==
    LET ins == psbt.unsigned_tx.input
        outs == psbt.unsigned_tx.output
        flat_outs == [i \in 1..(2 * Len(outs)) |->
                        IF i % 2 = 1 THEN outs[(i + 1) \div 2].owner
                        ELSE outs[i \div 2].value]
        in_maps == [i \in 1..(2 * Len(psbt.inputs)) |->
                        IF i % 2 = 1 THEN psbt.inputs[(i + 1) \div 2].utxo
                        ELSE IF psbt.inputs[i \div 2].sig THEN 1 ELSE 0]
        out_maps == [i \in 1..Len(psbt.outputs) |-> psbt.outputs[i].pays]
    IN <<Len(ins)>> \o ins \o <<Len(outs)>> \o flat_outs \o in_maps \o out_maps

\* Whether hex::decode and Psbt::deserialize both return Ok: the counts are
\* there, every announced element and every map is there, and nothing else.
Deserializable(hex) ==
    /\ Len(hex) >= 2
    /\ LET n_in == hex[1]
       IN /\ Len(hex) >= n_in + 2
          /\ LET n_out == hex[n_in + 2]
                 maps == n_in + 2 + 2 * n_out
             IN /\ Len(hex) = maps + 2 * n_in + n_out
                /\ \A i \in 1..n_in : hex[maps + 2 * i] \in {0, 1}

\* Psbt::deserialize(&hex::decode(psbt_hex)) on a well-formed encoding.
Deserialize(hex) ==
    LET n_in == hex[1]
        n_out == hex[n_in + 2]
        outs == n_in + 2
        maps == outs + 2 * n_out
    IN [unsigned_tx |->
            [input |-> [i \in 1..n_in |-> hex[1 + i]],
             output |-> [i \in 1..n_out |->
                            [owner |-> hex[outs + 2 * i - 1],
                             value |-> hex[outs + 2 * i]]]],
        inputs |-> [i \in 1..n_in |->
                        [utxo |-> hex[maps + 2 * i - 1],
                         sig |-> hex[maps + 2 * i] = 1]],
        outputs |-> [i \in 1..n_out |->
                        [pays |-> hex[maps + 2 * n_in + i]]]]

\* An encoding cut short in transit or by a faulty sender.
Truncated(hex) == Front(hex)

\* ------------------------------------------------------ channel manager
\* channel_manager.list_channels_with_counterparty(&node_id), on the list of
\* this node's open channels (each channel named by its counterparty).
list_channels_with_counterparty(open_channels, node_id) ==
    SelectSeq(open_channels, LAMBDA c : c = node_id)

\* Mutant of send_psbt: the flag of the received event is passed on, not
\* the handler's own.
send_psbt_received_flag(me, next_node_id, ev, participants, hops, psbt_hex, sign) ==
    [receiver_node_id |-> next_node_id,
     prev_node_id |-> me,
     uniform_amount |-> ev.uniform_amount,
     fee_per_participant |-> ev.fee_per_participant,
     max_participants |-> ev.max_participants,
     participants |-> participants,
     hops |-> hops,
     psbt_hex |-> psbt_hex,
     sign |-> ev.sign]

\* channel_manager.send_psbt(next_node_id, ...): the message, which the peer
\* gets as a PSBTReceived event with prev_node_id the sender.
send_psbt(me, next_node_id, ev, participants, hops, psbt_hex, sign) ==
    [receiver_node_id |-> next_node_id,
     prev_node_id |-> me,
     uniform_amount |-> ev.uniform_amount,
     fee_per_participant |-> ev.fee_per_participant,
     max_participants |-> ev.max_participants,
     participants |-> participants,
     hops |-> hops,
     psbt_hex |-> psbt_hex,
     sign |-> sign]

\* --------------------------------------------- what one invocation did
\* result: "sent" (send_psbt returned Ok), "send_failed" (send_psbt returned
\* Err, which `let _ =` drops), "stored", "panicked" (an unwrap failed, at
\* `line`), "discarded" (the handler returned without sending or storing).
Returned(ev) ==
    [node |-> ev.receiver_node_id,
     recv |-> Some(ev),
     result |-> "discarded",
     error |-> "none",
     line |-> 0,
     out |-> None,
     stored |-> None,
     participants |-> ev.participants,
     hops |-> ev.hops,
     sign |-> ev.sign,
     psbt |-> None,
     open_channels |-> <<>>,
     fund_failed |-> FALSE,
     joined |-> FALSE,
     after_join |-> None,
     quota_met |-> FALSE,
     before_shuffle |-> None,
     after_shuffle |-> None,
     signed |-> FALSE,
     pushed |-> FALSE,
     popped |-> None,
     delegated |-> FALSE]

\* .unwrap() on None or Err: the handler unwinds at that line.
Panicked(o, line, error) ==
    [o EXCEPT !.result = "panicked", !.line = line, !.error = error]

\* let _ = channel_manager.send_psbt(...): an Err is dropped.
Sent(o, msg, send_ok) ==
    [o EXCEPT !.result = IF send_ok THEN "sent" ELSE "send_failed",
              !.error = IF send_ok THEN "none" ELSE "SendError",
              !.out = Some(msg),
              !.participants = msg.participants,
              !.hops = msg.hops]

\* ------------------------------------------------ process_batch_events
\* `if !sign && !participants.contains(&receiver_node_id)`
NotAParticipantYet(sign, participants, receiver_node_id) ==
    ~sign /\ ~Contains(participants, receiver_node_id)

\* `if uniform_amount > 0 { Some(..) } else { None }`
UniformAmountOpt(uniform_amount) ==
    IF uniform_amount > 0 THEN Some(uniform_amount) ELSE None

\* Mutant of QuotaReached: `>` for `>=`.
QuotaExceeded(participants, max_participants) ==
    (Len(participants) % U8) > max_participants

\* Mutant of QuotaReached: the count is truncated to one bit, not to eight.
QuotaReachedOneBit(participants, max_participants) ==
    (Len(participants) % 2) >= max_participants

\* `if (participants.len() as u8) >= max_participants`
QuotaReached(participants, max_participants) ==
    (Len(participants) % U8) >= max_participants

\* Mutant of ShuffledPsbts: the metadata are shuffled on their own and the
\* unsigned transaction keeps its order.
ShuffledMetadata(psbt) ==
    {[unsigned_tx |-> psbt.unsigned_tx, inputs |-> pi, outputs |-> po] :
        pi \in SliceShuffle(psbt.inputs), po \in SliceShuffle(psbt.outputs)}

\* Shuffling inputs/outputs: the (Input, TxIn) pairs are shuffled and
\* unzipped back, then the (Output, TxOut) pairs.
ShuffledPsbts(psbt) ==
    LET paired_inputs == Zip(psbt.inputs, psbt.unsigned_tx.input)
        paired_outputs == Zip(psbt.outputs, psbt.unsigned_tx.output)
    IN {[unsigned_tx |-> [input |-> UnzipRight(pi), output |-> UnzipRight(po)],
         inputs |-> UnzipLeft(pi),
         outputs |-> UnzipLeft(po)] :
            pi \in SliceShuffle(paired_inputs),
            po \in SliceShuffle(paired_outputs)}

\* The first loop over open_channels: skip the participants and the last
\* hop; hops.last().unwrap() panics when hops is empty.
\* [panicked, next_node_id: Option<NodeId>]
RECURSIVE PreferredPeer(_, _, _, _)
PreferredPeer(open_channels, participants, hops, i) ==
    IF i > Len(open_channels)
    THEN [panicked |-> FALSE, next_node_id |-> None]
    ELSE IF Contains(participants, open_channels[i])
    THEN PreferredPeer(open_channels, participants, hops, i + 1)
    ELSE IF hops = <<>>
    THEN [panicked |-> TRUE, next_node_id |-> None]
    ELSE IF Last(hops) = open_channels[i]
    THEN PreferredPeer(open_channels, participants, hops, i + 1)
    ELSE [panicked |-> FALSE, next_node_id |-> Some(open_channels[i])]

\* The second loop: the first open channel whose counterparty is not
\* prev_node_id, if there is one.
FirstNotPrev(open_channels, prev_node_id) ==
    LET others == SelectSeq(open_channels, LAMBDA c : c # prev_node_id)
    IN IF others = <<>> THEN None ELSE Some(others[1])

\* `if next_node_id.is_none() { ... }`: the only channel if there is exactly
\* one, then overwritten by the first channel not with prev_node_id.
FallbackPeer(open_channels, prev_node_id) ==
    LET only == IF Len(open_channels) = 1 THEN Some(open_channels[1]) ELSE None
        other == FirstNotPrev(open_channels, prev_node_id)
    IN IF other # None THEN other ELSE only

\* The next node of the Collecting phase.
NextNodeId(open_channels, participants, hops, prev_node_id) ==
    LET preferred == PreferredPeer(open_channels, participants, hops, 1)
    IN IF preferred.panicked \/ preferred.next_node_id # None
       THEN preferred
       ELSE [panicked |-> FALSE,
             next_node_id |-> FallbackPeer(open_channels, prev_node_id)]

\* Mutant of HopsPush: the node is recorded at the other end of the list.
HopsPushFront(hops, receiver_node_id) == <<receiver_node_id>> \o hops

\* `hops.push(receiver_node_id)`
HopsPush(hops, receiver_node_id) == Append(hops, receiver_node_id)

\* The `if !sign` branch: select the next node, push this node on hops, send.
Collecting(o, ev, me, participants, hops, psbt, open_channels, w) ==
    LET selected == NextNodeId(open_channels, participants, hops, ev.prev_node_id)
        pushed == HopsPush(hops, me)
    IN IF selected.panicked
       THEN Panicked(o, 141, "RoutingError")
       ELSE IF selected.next_node_id = None
       THEN Panicked([o EXCEPT !.hops = pushed, !.pushed = TRUE], 166, "RoutingError")
       ELSE Sent([o EXCEPT !.pushed = TRUE],
                 send_psbt(me, selected.next_node_id[1], ev, participants, pushed,
                           Serialize(psbt), FALSE),
                 w.send)

\* `for node_id in participants.iter().rev()`: the last participant this
\* node has a channel with.
AlternatePeer(open_channels, participants) ==
    LET direct == SelectSeq(participants,
                    LAMBDA p : Len(list_channels_with_counterparty(open_channels, p)) > 0)
    IN IF direct = <<>> THEN None ELSE Some(Last(direct))

\* Mutant of InnerParticipants: next_signer is pushed without the check.
InnerParticipantsPushed(participants, next_signer_node_id) ==
    Append(participants, next_signer_node_id)

\* `if !inner_participants.contains(&next_signer_node_id) { push }`
InnerParticipants(participants, next_signer_node_id) ==
    IF Contains(participants, next_signer_node_id)
    THEN participants
    ELSE Append(participants, next_signer_node_id)

\* `if hops.len() > 0 { ... }`: pop the next signer and send to it, or to
\* an alternate peer when this node has no channel with it.
Relay(o, ev, me, participants, hops, psbt, open_channels, w) ==
    LET next_signer_node_id == Last(hops)
        popped == Front(hops)
        psbt_hex == Serialize(psbt)
        o1 == [o EXCEPT !.hops = popped, !.popped = Some(next_signer_node_id)]
        alternate == AlternatePeer(open_channels, participants)
    IN IF Len(list_channels_with_counterparty(open_channels, next_signer_node_id)) > 0
       THEN Sent(o1,
                 send_psbt(me, next_signer_node_id, ev, participants, popped,
                           psbt_hex, TRUE),
                 w.send)
       ELSE IF alternate = None
       THEN o1
       ELSE Sent([o1 EXCEPT !.delegated = TRUE],
                 send_psbt(me, alternate[1], ev,
                           InnerParticipants(participants, next_signer_node_id),
                           popped, psbt_hex, TRUE),
                 w.send)

\* `else { wallet.push_to_batch_psbts(psbt_hex).unwrap(); }`
Finalize(o, psbt, w) ==
    IF w.store
    THEN [o EXCEPT !.result = "stored", !.stored = Some(Serialize(psbt))]
    ELSE Panicked(o, 229, "StorageError")

\* Mutant of HopsRemain: the last recorded hop is not popped.
HopsRemainAfterNext(hops) == Len(hops) > 1

\* `if hops.len() > 0`: a node is still recorded on the way back.
HopsRemain(hops) == Len(hops) > 0

\* `if participants.contains(&receiver_node_id)`: this node owes a signature.
OwesSignature(participants, receiver_node_id) ==
    Contains(participants, receiver_node_id)

\* The `else` branch of `if !sign`: sign if owed, then relay or finalize.
Signing(o, ev, me, participants, hops, psbt, open_channels, w) ==
    LET owes == OwesSignature(participants, me)
        signed == IF owes THEN payjoin_sign_psbt(psbt, me) ELSE psbt
        retained == IF owes THEN Retain(participants, me) ELSE participants
        o1 == [o EXCEPT !.signed = owes, !.participants = retained,
                        !.psbt = Some(signed)]
    IN IF owes /\ ~(w.sign /\ HasSignableInput(psbt, me))
       THEN Panicked(o, 179, "SigningError")
       ELSE IF HopsRemain(hops)
       THEN Relay(o1, ev, me, retained, hops, signed, open_channels, w)
       ELSE Finalize(o1, signed, w)

\* After the join: the quota check, the shuffle, and one of the two branches.
Route(o, ev, me, participants, psbt, open_channels, w) ==
    LET quota == QuotaReached(participants, ev.max_participants)
        sign == ev.sign \/ quota
        o1 == [o EXCEPT !.participants = participants, !.sign = sign,
                        !.after_join = Some(participants),
                        !.quota_met = quota,
                        !.before_shuffle = IF quota THEN Some(psbt) ELSE None]
    IN {LET o2 == [o1 EXCEPT !.psbt = Some(shuffled),
                             !.after_shuffle = IF quota THEN Some(shuffled) ELSE None]
        IN IF ~sign
           THEN Collecting(o2, ev, me, participants, ev.hops, shuffled,
                           open_channels, w)
           ELSE Signing(o2, ev, me, participants, ev.hops, shuffled,
                        open_channels, w) :
            shuffled \in IF quota THEN ShuffledPsbts(psbt) ELSE {psbt}}

\* Mutant of FundingFails: the wallet's Err is dropped (`let _ =`).
FundingErrorDropped(join, w) == FALSE

\* `wallet.add_utxos_to_psbt(...).unwrap()`: an Err of the wallet ends the
\* handler there.
FundingFails(join, w) == join /\ ~w.fund

\* LdkEvent::PSBTReceived: every way the handler can end on event ev at the
\* node with these open channels, the wallet and the transport answering w.
PSBTReceived(ev, open_channels, w) ==
    LET me == ev.receiver_node_id
        join == NotAParticipantYet(ev.sign, ev.participants, me)
        o == [Returned(ev) EXCEPT !.open_channels = open_channels,
                                  !.fund_failed = join /\ ~w.fund]
    IN IF ~Deserializable(ev.psbt_hex)
       THEN {Panicked([o EXCEPT !.fund_failed = FALSE], 77, "ParseError")}
       ELSE IF FundingFails(join, w)
       THEN {Panicked([o EXCEPT !.participants = Append(ev.participants, me)],
                      91, "FundingError")}
       ELSE IF join
       THEN Route([o EXCEPT !.joined = TRUE], ev, me,
                  Append(ev.participants, me),
                  add_utxos_to_psbt(Deserialize(ev.psbt_hex), me, OutputCount,
                                    UniformAmountOpt(ev.uniform_amount)),
                  open_channels, w)
       ELSE Route(o, ev, me, ev.participants, Deserialize(ev.psbt_hex),
                  open_channels, w)

\* ------------------------------------------------------------ the state
VARIABLES
    channels,     \* node -> its open channels, by counterparty, in list order
    net,          \* the batch message in flight: None or Some(message)
    batch_psbts,  \* node -> what its wallet stored by push_to_batch_psbts
    crashed,      \* the nodes whose handler panicked
    last,         \* what the latest handler invocation did: None or Some(..)
    origin,       \* how the batch was originated: None or Some(..)
    closes,       \* channels closed so far
    shuffles,     \* shuffles performed on the batch so far
    pushes,       \* hops.push performed and sent on so far
    pops,         \* hops.pop performed so far
    funded,       \* the nodes whose wallet contributed to the batch, in order
    faults        \* whether a wallet, codec, transport or storage call failed

vars ==
    <<channels, net, batch_psbts, crashed, last, origin, closes, shuffles,
      pushes, pops, funded, faults>>

\* Every list of at most MaxChannels open channels; list_channels is taken
\* to list them by counterparty id.
ChannelLists ==
    {c \in UNION {[1..k -> Nodes] : k \in 0..MaxChannels} :
        \A i \in 1..(Len(c) - 1) : c[i] <= c[i + 1]}

\* A channel has two ends: a lists as many channels with b as b with a, and
\* no node has a channel with itself.
Topologies ==
    {c \in [Nodes -> ChannelLists] :
        \A a \in Nodes :
            /\ Count(c[a], a) = 0
            /\ \A b \in Nodes : Count(c[a], b) = Count(c[b], a)}

\* The failures of the calls the handler makes: none, or one of them.
Answers ==
    {w \in [fund : BOOLEAN, sign : BOOLEAN, store : BOOLEAN, send : BOOLEAN] :
        Cardinality({f \in {"fund", "sign", "store", "send"} : ~w[f]}) <= 1}

ExternalErrors ==
    {"ParseError", "FundingError", "SigningError", "StorageError", "SendError"}

Init ==
    /\ channels \in Topologies
    /\ net = None
    /\ batch_psbts = [n \in Nodes |-> <<>>]
    /\ crashed = {}
    /\ last = None
    /\ origin = None
    /\ closes = 0
    /\ shuffles = 0
    /\ pushes = 0
    /\ pops = 0
    /\ funded = <<>>
    /\ faults = FALSE

\* A node starts a batch: participants = [self], phase Collecting, its own
\* transaction, sent to a peer it has a channel with.  hops starts empty, or
\* holds the originator when the originator records itself as the first hop
\* (the Signing workflow is to "send final PSBT back to initial node", which
\* it reaches only through hops).  The encoding may arrive cut short.
Originate(o, peer, max_participants, uniform_amount, fee, first_hops, cut) ==
    LET psbt_hex == Serialize(InitialPsbt(o, UniformAmountOpt(uniform_amount)))
    IN /\ origin = None
       /\ Contains(channels[o], peer)
       /\ net' = Some([receiver_node_id |-> peer,
                       prev_node_id |-> o,
                       uniform_amount |-> uniform_amount,
                       fee_per_participant |-> fee,
                       max_participants |-> max_participants,
                       participants |-> <<o>>,
                       hops |-> first_hops,
                       psbt_hex |-> IF cut THEN Truncated(psbt_hex) ELSE psbt_hex,
                       sign |-> FALSE])
       /\ origin' = Some([originator |-> o, hops |-> first_hops,
                          max_participants |-> max_participants,
                          malformed |-> cut])
       /\ funded' = <<o>>
       /\ faults' = cut
       /\ UNCHANGED <<channels, batch_psbts, crashed, last, closes, shuffles,
                      pushes, pops>>

\* The node the message is for handles its PSBTReceived event.
Receive ==
    /\ net # None
    /\ LET ev == net[1]
           me == ev.receiver_node_id
       IN /\ me \notin crashed
          /\ \E w \in Answers :
                \E o \in PSBTReceived(ev, channels[me], w) :
                    /\ \A i \in DOMAIN o.out : Len(o.out[i].hops) <= MaxHops
                    /\ net' = IF o.result = "sent" THEN o.out ELSE None
                    /\ batch_psbts' =
                            [batch_psbts EXCEPT ![me] = batch_psbts[me] \o o.stored]
                    /\ crashed' = IF o.result = "panicked"
                                  THEN crashed \cup {me} ELSE crashed
                    /\ last' = Some(o)
                    /\ shuffles' = shuffles + (IF o.quota_met THEN 1 ELSE 0)
                    /\ pushes' = pushes + (IF o.pushed /\ o.out # None THEN 1 ELSE 0)
                    /\ pops' = pops + Len(o.popped)
                    /\ funded' = IF o.joined THEN Append(funded, me) ELSE funded
                    /\ faults' = (faults \/ o.error \in ExternalErrors)
    /\ UNCHANGED <<channels, origin, closes>>

\* LdkEvent::PSBTSent at the sender of the message in flight: logged only.
PSBTSent ==
    /\ net # None
    /\ UNCHANGED vars

\* s without its first x.
RemoveFirst(s, x) ==
    LET i == CHOOSE k \in DOMAIN s : s[k] = x /\ \A j \in 1..(k - 1) : s[j] # x
    IN SubSeq(s, 1, i - 1) \o SubSeq(s, i + 1, Len(s))

\* A channel between a and b closes while the batch is in flight.
CloseChannel(a, b) ==
    /\ net # None
    /\ closes < MaxCloses
    /\ a < b
    /\ Contains(channels[a], b)
    /\ channels' = [channels EXCEPT ![a] = RemoveFirst(channels[a], b),
                                    ![b] = RemoveFirst(channels[b], a)]
    /\ closes' = closes + 1
    /\ UNCHANGED <<net, batch_psbts, crashed, last, origin, shuffles, pushes,
                   pops, funded, faults>>

Next ==
    \/ \E o \in Nodes, peer \in Nodes, max_participants \in 0..MaxQuota,
          uniform_amount \in 0..MaxAmount, fee \in 1..MaxFee, cut \in BOOLEAN :
            \E first_hops \in {<<>>, <<o>>} :
                Originate(o, peer, max_participants, uniform_amount, fee,
                          first_hops, cut)
    \/ Receive
    \/ PSBTSent
    \/ \E a \in Nodes, b \in Nodes : CloseChannel(a, b)

Spec == Init /\ [][Next]_vars

\* ------------------------------------------------------------ topology
\* The nodes one channel away from the nodes of S, and S.
Neighbourhood(c, S) == S \cup {b \in Nodes : \E a \in S : Contains(c[a], b)}

RECURSIVE ReachableIn(_, _, _)
ReachableIn(c, S, k) ==
    IF k = 0 THEN S ELSE ReachableIn(c, Neighbourhood(c, S), k - 1)

\* Every node is linked to every other by a path of open channels.
Connected(c) == \A n \in Nodes : ReachableIn(c, {n}, NumNodes) = Nodes

\* The batch was finalized: some wallet stores its transaction.
Finalized == \E n \in Nodes : batch_psbts[n] # <<>>

\* ------------------------------------------------------------- claims

\* C1: finalization is never premature.  Whenever a node hands the
\* transaction to wallet storage, hops is empty and participants is empty: no
\* node that joined the batch still owes a signature.
FinalizationNeverPremature ==
    \A i \in DOMAIN last :
        last[i].result = "stored" =>
            /\ last[i].hops = <<>>
            /\ last[i].participants = <<>>

\* C2: no failure aborts the handler.  Whatever fails while a Received event
\* is processed, the handler returns normally: no node's handler has panicked.
HandlerAlwaysReturns ==
    /\ crashed = {}
    /\ \A i \in DOMAIN last : last[i].result # "panicked"

\* C3: termination.  In a connected topology whose channels stay open, with
\* no failing wallet, codec, transport or storage call, a batch originated
\* with participants = [originator], hops = [] does not come to rest before
\* it is finalized: once no message is in flight, the transaction is stored.
BatchComesToRestFinalized ==
    \A i \in DOMAIN origin :
        (/\ origin[i].hops = <<>>
         /\ ~faults
         /\ closes = 0
         /\ Connected(channels)
         /\ net = None)
        => Finalized

\* C4: the shuffle runs once per batch.  A node that receives the message
\* already in the Signing phase does not shuffle the transaction again.
NoShuffleInSigningPhase ==
    \A i \in DOMAIN last :
        last[i].recv[1].sign => last[i].after_shuffle = None

\* C5: the transition fires exactly at the quota.  A handler that got the
\* message in the Collecting phase turns it to Signing exactly when, after
\* its own join, participants.len() >= max_participants; every message it
\* forwards as Collecting carries fewer participants than max_participants,
\* and a node whose join completes the quota forwards nothing as Collecting.
QuotaTransitionExact ==
    \A i \in DOMAIN last :
        LET o == last[i]
            ev == o.recv[1]
        IN /\ \A k \in DOMAIN o.out :
                ~o.out[k].sign =>
                    Len(o.out[k].participants) < o.out[k].max_participants
           /\ \A j \in DOMAIN o.after_join :
                /\ ~ev.sign =>
                    (o.sign <=> Len(o.after_join[j]) >= ev.max_participants)
                /\ (o.joined /\ Len(o.after_join[j]) >= ev.max_participants) =>
                    /\ o.after_shuffle # None
                    /\ \A k \in DOMAIN o.out : o.out[k].sign

\* C5, witness: a node joins, its join completes a quota of three, and it
\* sends the message on in the Signing phase.
QuotaCompletedByJoin ==
    \E i \in DOMAIN last :
        /\ last[i].joined
        /\ last[i].recv[1].max_participants >= 3
        /\ Len(last[i].recv[1].participants) + 1 = last[i].recv[1].max_participants
        /\ last[i].result = "sent"
        /\ last[i].out[1].sign

\* C6: the phase is monotonic.  A handler that received the message in the
\* Signing phase, or turned it to Signing itself, sends it on as Signing; a
\* node that receives it as Signing does not join; and once a shuffle has
\* happened the message in flight is in the Signing phase.
PhaseMonotonic ==
    /\ \A i \in DOMAIN last :
        LET o == last[i]
        IN /\ (o.recv[1].sign \/ o.quota_met) =>
                \A k \in DOMAIN o.out : o.out[k].sign
           /\ o.recv[1].sign => (~o.joined /\ o.sign)
    /\ \A i \in DOMAIN net : shuffles >= 1 => net[i].sign

\* C6, witness: after three nodes funded the batch, a node gets the message
\* in the Signing phase, does not join, and relays it, still Signing.
SigningRelayed ==
    \E i \in DOMAIN last :
        /\ last[i].recv[1].sign
        /\ ~last[i].joined
        /\ Len(funded) >= 3
        /\ last[i].result = "sent"
        /\ last[i].out[1].sign

\* The metadata at every position describes the raw element at that position.
Aligned(psbt) ==
    /\ Len(psbt.inputs) = Len(psbt.unsigned_tx.input)
    /\ \A k \in DOMAIN psbt.inputs :
        psbt.inputs[k].utxo = psbt.unsigned_tx.input[k]
    /\ Len(psbt.outputs) = Len(psbt.unsigned_tx.output)
    /\ \A k \in DOMAIN psbt.outputs :
        psbt.outputs[k].pays = psbt.unsigned_tx.output[k].owner

\* C7: alignment.  In every transaction of the protocol (the one in flight,
\* the one a handler joined, shuffled, signed, sent or stored) the input
\* metadata and the raw inputs have equal length and agree position by
\* position, and so do the output metadata and the raw outputs.
TransactionsAligned ==
    /\ \A i \in DOMAIN net :
        Deserializable(net[i].psbt_hex) => Aligned(Deserialize(net[i].psbt_hex))
    /\ \A n \in Nodes : \A k \in DOMAIN batch_psbts[n] :
        /\ Deserializable(batch_psbts[n][k])
        /\ Aligned(Deserialize(batch_psbts[n][k]))
    /\ \A i \in DOMAIN last :
        /\ \A k \in DOMAIN last[i].psbt : Aligned(last[i].psbt[k])
        /\ \A k \in DOMAIN last[i].before_shuffle : Aligned(last[i].before_shuffle[k])
        /\ \A k \in DOMAIN last[i].after_shuffle : Aligned(last[i].after_shuffle[k])

\* C7, witness: a transaction of three inputs was shuffled into another
\* order, signed by the node that shuffled it, and sent on.
ShuffledSignedAndSent ==
    \E i \in DOMAIN last :
        /\ last[i].after_shuffle # None
        /\ Len(last[i].after_shuffle[1].inputs) >= 3
        /\ last[i].after_shuffle[1].unsigned_tx.input
                # last[i].before_shuffle[1].unsigned_tx.input
        /\ last[i].after_shuffle[1].unsigned_tx.output
                # last[i].before_shuffle[1].unsigned_tx.output
        /\ last[i].signed
        /\ last[i].result = "sent"

Range(s) == {s[k] : k \in DOMAIN s}

\* a and b hold the same elements, each as many times.
SameMultiset(a, b) ==
    /\ Len(a) = Len(b)
    /\ \A x \in Range(a) \cup Range(b) : Count(a, x) = Count(b, x)

\* The (metadata, raw) pairs of a transaction, position by position.
InputPairs(psbt) ==
    [k \in 1..Len(psbt.inputs) |->
        <<psbt.inputs[k],
          IF k <= Len(psbt.unsigned_tx.input)
          THEN Some(psbt.unsigned_tx.input[k]) ELSE None>>]

OutputPairs(psbt) ==
    [k \in 1..Len(psbt.outputs) |->
        <<psbt.outputs[k],
          IF k <= Len(psbt.unsigned_tx.output)
          THEN Some(psbt.unsigned_tx.output[k]) ELSE None>>]

\* C8: the shuffle is a permutation.  The multiset of (metadata, raw) input
\* pairs after a shuffle is the multiset before it, with the raw sequences
\* as long as before; the same for the output pairs.
ShuffleIsPermutation ==
    \A i \in DOMAIN last :
        \A k \in DOMAIN last[i].after_shuffle :
            LET before == last[i].before_shuffle[k]
                after == last[i].after_shuffle[k]
            IN /\ SameMultiset(InputPairs(before), InputPairs(after))
               /\ SameMultiset(OutputPairs(before), OutputPairs(after))
               /\ Len(after.unsigned_tx.input) = Len(before.unsigned_tx.input)
               /\ Len(after.unsigned_tx.output) = Len(before.unsigned_tx.output)

\* C8, witness: a shuffle of three input pairs and five output pairs, two
\* of them equal, that moved the first input and the first output.
ShuffleMovedPairs ==
    \E i \in DOMAIN last :
        /\ last[i].after_shuffle # None
        /\ Len(last[i].before_shuffle[1].inputs) = 3
        /\ Len(last[i].before_shuffle[1].outputs) = 5
        /\ InputPairs(last[i].after_shuffle[1])[1]
                # InputPairs(last[i].before_shuffle[1])[1]
        /\ OutputPairs(last[i].after_shuffle[1])[1]
                # OutputPairs(last[i].before_shuffle[1])[1]

NoNextPeer(o) ==
    /\ o.after_join # None
    /\ ~o.sign
    /\ LET selected == NextNodeId(o.open_channels, o.after_join[1],
                                  o.recv[1].hops, o.recv[1].prev_node_id)
       IN ~selected.panicked /\ selected.next_node_id = None

\* C10: no open channels.  When a node in the Collecting phase, quota not
\* met, has no open channel (or no next peer to select), the handler ends
\* with a RoutingError without crashing: nothing is sent, the message is gone.
NoChannelsIsRoutingError ==
    \A i \in DOMAIN last :
        NoNextPeer(last[i]) =>
            /\ last[i].error = "RoutingError"
            /\ last[i].result # "panicked"
            /\ last[i].out = None
            /\ net = None

\* The peers the first loop of the Collecting branch prefers: an open
\* channel whose counterparty is not among the participants and is not the
\* last recorded hop (no hop recorded, no hop to avoid).
EligiblePeers(open_channels, participants, hops) ==
    {open_channels[k] : k \in
        {j \in DOMAIN open_channels :
            /\ ~Contains(participants, open_channels[j])
            /\ (hops = <<>> \/ open_channels[j] # Last(hops))}}

\* C11: Collecting forward.  When the quota is not met after the join and
\* some open-channel peer is neither a participant nor the last recorded
\* hop, the node pushes its own id on hops and sends the message, still
\* Collecting, to such a peer; also when it got the message with no hops.
EligiblePeerForwarded ==
    \A i \in DOMAIN last :
        LET o == last[i]
            ev == o.recv[1]
        IN \A j \in DOMAIN o.after_join :
            (~o.sign /\ EligiblePeers(o.open_channels, o.after_join[j], ev.hops) # {}) =>
                /\ o.out # None
                /\ \A k \in DOMAIN o.out :
                    /\ ~o.out[k].sign
                    /\ o.out[k].hops = Append(ev.hops, o.node)
                    /\ o.out[k].participants = o.after_join[j]
                    /\ o.out[k].receiver_node_id
                        \in EligiblePeers(o.open_channels, o.after_join[j], ev.hops)

\* C12: pops equal pushes.  When the batch is finalized, the hops popped in
\* its Signing phase are as many as the hops pushed in its Collecting phase
\* (the forwarding nodes' pushes, and the hops the originator put on the
\* list itself, none when it originates with hops = []).
PopsEqualPushes ==
    Finalized =>
        \A i \in DOMAIN origin : pops = pushes + Len(origin[i].hops)

\* C12, witness: a batch originated with no hops was pushed twice on its
\* way out, popped on its way back, and is stored.
FinalizedAfterTwoPushes ==
    /\ Finalized
    /\ origin # None
    /\ origin[1].hops = <<>>
    /\ pushes >= 2

\* C13: the final PSBT comes back to the initial node.  For a batch
\* originated with participants = [originator] and hops = [], the node
\* that hands the transaction to wallet storage is the originator.
FinalizedAtOriginator ==
    \A i \in DOMAIN origin :
        origin[i].hops = <<>> =>
            \A n \in Nodes : batch_psbts[n] # <<>> => n = origin[i].originator

\* C14: Collecting fallback.  When the quota is not met and no open-channel
\* peer is preferred, the message is forwarded, still Collecting: over the
\* only open channel if there is exactly one (even back to the sender),
\* otherwise to the first open-channel peer that is not the immediate
\* sender; with at least one open channel a next peer is always selected.
FallbackSelectsPeer ==
    \A i \in DOMAIN last :
        LET o == last[i]
            ev == o.recv[1]
            chs == o.open_channels
            other == FirstNotPrev(chs, ev.prev_node_id)
        IN \A j \in DOMAIN o.after_join :
            (/\ ~o.sign
             /\ EligiblePeers(chs, o.after_join[j], ev.hops) = {}
             /\ Len(chs) >= 1) =>
                /\ o.out # None
                /\ \A k \in DOMAIN o.out :
                    /\ ~o.out[k].sign
                    /\ Len(chs) = 1 => o.out[k].receiver_node_id = chs[1]
                    /\ (Len(chs) > 1 /\ other # None) =>
                            o.out[k].receiver_node_id = other[1]

\* A Signing handler popped next_signer and has no open channel with it.
PoppedWithoutChannel(o) ==
    /\ o.popped # None
    /\ \A k \in DOMAIN o.popped :
        list_channels_with_counterparty(o.open_channels, o.popped[k]) = <<>>

\* C15: Signing delegation.  When hops is not empty and this node has no
\* open channel with the popped next_signer, the message is forwarded, in
\* the Signing phase, to a directly connected peer that is still listed in
\* participants, and the forwarded participants contain next_signer.
DelegatedToParticipant ==
    \A i \in DOMAIN last :
        LET o == last[i]
        IN PoppedWithoutChannel(o) =>
            /\ o.out # None
            /\ \A k \in DOMAIN o.out :
                /\ o.out[k].sign
                /\ o.out[k].hops = Front(o.recv[1].hops)
                /\ list_channels_with_counterparty(o.open_channels,
                        o.out[k].receiver_node_id) # <<>>
                /\ Contains(Retain(o.recv[1].participants, o.node),
                            o.out[k].receiver_node_id)
                /\ Contains(o.out[k].participants, o.popped[1])

\* --------------------------------------------- several batches in flight

\* How many batches are originated, and the largest quota of one.
MaxBatches == 2
MaxBatchQuota == 2

\* A node originates one more batch while others may be in flight:
\* participants = [originator], hops = [] (or the originator itself, as in
\* Originate), a well-formed transaction.
OriginateBatch(o, peer, max_participants, first_hops) ==
    /\ Len(origin) < MaxBatches
    /\ Contains(channels[o], peer)
    /\ net' = Append(net, [receiver_node_id |-> peer,
                           prev_node_id |-> o,
                           uniform_amount |-> 0,
                           fee_per_participant |-> 1,
                           max_participants |-> max_participants,
                           participants |-> <<o>>,
                           hops |-> first_hops,
                           psbt_hex |-> Serialize(InitialPsbt(o, None)),
                           sign |-> FALSE])
    /\ origin' = Append(origin, [originator |-> o, hops |-> first_hops,
                                 max_participants |-> max_participants,
                                 malformed |-> FALSE])
    /\ UNCHANGED <<channels, batch_psbts, crashed, last, closes, shuffles,
                   pushes, pops, funded, faults>>

\* The node the i-th message in flight is for handles its PSBTReceived
\* event; the events of different batches are handled in any order.  A node
\* whose handler panicked handles no further event.  The record of the
\* single batch (last and the counters) is not kept for several batches.
ReceiveOf(i) ==
    /\ i \in DOMAIN net
    /\ LET ev == net[i]
           me == ev.receiver_node_id
       IN /\ me \notin crashed
          /\ \E w \in Answers :
                \E o \in PSBTReceived(ev, channels[me], w) :
                    /\ \A k \in DOMAIN o.out : Len(o.out[k].hops) <= MaxHops
                    /\ net' = SubSeq(net, 1, i - 1)
                                \o (IF o.result = "sent" THEN o.out ELSE None)
                                \o SubSeq(net, i + 1, Len(net))
                    /\ batch_psbts' =
                            [batch_psbts EXCEPT ![me] = batch_psbts[me] \o o.stored]
                    /\ crashed' = IF o.result = "panicked"
                                  THEN crashed \cup {me} ELSE crashed
    /\ UNCHANGED <<channels, origin, last, closes, shuffles, pushes, pops,
                   funded, faults>>

NextBatches ==
    \/ \E o \in Nodes, peer \in Nodes, max_participants \in 1..MaxBatchQuota :
            \E first_hops \in {<<>>, <<o>>} :
                OriginateBatch(o, peer, max_participants, first_hops)
    \/ \E i \in 1..MaxBatches : ReceiveOf(i)

SpecBatches == Init /\ [][NextBatches]_vars

\* C16: batches are independent.  Whatever the other batches in flight did,
\* a batch goes on as it does alone: the node its message is for handles
\* the event, so the message is never left in flight at a node that no
\* longer handles events.
BatchesIndependent ==
    \A i \in DOMAIN net : net[i].receiver_node_id \notin crashed

\* No element occurs twice in s.
NoDuplicates(s) == \A x \in Range(s) : Count(s, x) = 1

\* C17: participants is a set.  In every message of a batch that started
\* with participants = [originator] (the one in flight, the one a handler
\* sends, the list after a join) no NodeId occurs twice in participants, and
\* no node funds the batch twice.
ParticipantsIsASet ==
    /\ \A i \in DOMAIN net : NoDuplicates(net[i].participants)
    /\ \A i \in DOMAIN last :
        /\ \A k \in DOMAIN last[i].after_join : NoDuplicates(last[i].after_join[k])
        /\ \A k \in DOMAIN last[i].out : NoDuplicates(last[i].out[k].participants)
        /\ NoDuplicates(last[i].participants)
    /\ NoDuplicates(funded)

\* C17, witness: after joins and a signing removal, a node delegates and
\* re-inserts a next_signer that was no longer listed.
ReinsertedAfterRemoval ==
    \E i \in DOMAIN last :
        /\ last[i].delegated
        /\ last[i].signed
        /\ last[i].out # None
        /\ Len(funded) >= 2
        /\ ~Contains(Retain(last[i].recv[1].participants, last[i].node),
                     last[i].popped[1])
        /\ Contains(last[i].out[1].participants, last[i].popped[1])

\* C18: exactly one effect.  A PSBTReceived event that is processed without
\* a wallet, codec or routing failure either sends exactly one message or
\* stores the transaction exactly once, never both and never neither: no
\* message is silently discarded, a Signing message with hops left included.
ExactlyOneEffect ==
    \A i \in DOMAIN last :
        LET o == last[i]
        IN (o.result # "panicked" /\ o.error \notin ExternalErrors \ {"SendError"}) =>
            Len(o.out) + Len(o.stored) = 1

\* C19: with unchanging channels the way back retraces the way out.  If no
\* channel closes during the batch, a node that pops next_signer in the
\* Signing phase has an open channel with it, never takes the alternate-peer
\* branch, and sends the message to next_signer with the rest of hops: the
\* recorded hops are visited last pushed, first popped.
SigningRetracesHops ==
    closes = 0 =>
        \A i \in DOMAIN last :
            LET o == last[i]
            IN \A k \in DOMAIN o.popped :
                /\ o.popped[k] = Last(o.recv[1].hops)
                /\ list_channels_with_counterparty(o.open_channels, o.popped[k]) # <<>>
                /\ ~o.delegated
                /\ o.out # None
                /\ \A j \in DOMAIN o.out :
                    /\ o.out[j].receiver_node_id = o.popped[k]
                    /\ o.out[j].hops = Front(o.recv[1].hops)
                    /\ o.out[j].sign

\* C19, witness: no channel closed, two hops were pushed, and the second
\* of them is popped by the node it had sent the message to.
SecondHopPoppedFirst ==
    \E i \in DOMAIN last :
        /\ closes = 0
        /\ pushes >= 2
        /\ last[i].popped # None
        /\ Len(last[i].recv[1].hops) >= 2
        /\ last[i].result = "sent"
        /\ last[i].out[1].receiver_node_id = last[i].recv[1].prev_node_id

\* The bound of C20 on the participant count.
CountBound(max_participants) == IF max_participants > 2 THEN max_participants ELSE 2

\* C20: the count fits in eight bits.  In a batch that started with
\* participants = [originator] no message carries more participants than
\* max(max_participants, 2), hence never more than 255, and at every quota
\* check the count truncated to eight bits compares with max_participants
\* as the count itself does.
ParticipantCountBounded ==
    /\ \A i \in DOMAIN net :
        /\ Len(net[i].participants) <= CountBound(net[i].max_participants)
        /\ Len(net[i].participants) < U8
    /\ \A i \in DOMAIN last :
        /\ \A k \in DOMAIN last[i].out :
            Len(last[i].out[k].participants)
                <= CountBound(last[i].out[k].max_participants)
        /\ \A k \in DOMAIN last[i].after_join :
            /\ Len(last[i].after_join[k])
                    <= CountBound(last[i].recv[1].max_participants)
            /\ Len(last[i].after_join[k]) < U8
            /\ QuotaReached(last[i].after_join[k], last[i].recv[1].max_participants)
                    <=> Len(last[i].after_join[k]) >= last[i].recv[1].max_participants
            /\ last[i].quota_met
                    <=> Len(last[i].after_join[k]) >= last[i].recv[1].max_participants

\* C20, witness: a join brings the count to a quota of three and the quota
\* check passes; the message goes on with the count at its bound.
CountAtTheBound ==
    \E i \in DOMAIN last :
        /\ last[i].joined
        /\ last[i].quota_met
        /\ last[i].recv[1].max_participants >= 3
        /\ Len(last[i].after_join[1]) = CountBound(last[i].recv[1].max_participants)
        /\ net # None

====
